---------------------------- MODULE Spec2Model ----------------------------
(***************************************************************************)
(* Verification model of the project-board application (src/src/app.ts):   *)
(* the ProjectState store, the validate function, the three components    *)
(* (ProjectInput, ProjectList, ProjectItem) and their event handlers.     *)
(*                                                                         *)
(* Conventions                                                             *)
(*  - A text is a sequence of one-character strings.                       *)
(*  - An optional value (a property that may be undefined) is <<>> when    *)
(*    absent and <<v>> when present.                                       *)
(*  - A Project object lives in `heap`; arrays of projects hold references *)
(*    (indices into heap), as JavaScript arrays of objects do.             *)
(*  - The host document and the platform's event delivery are not part of  *)
(*    the sources: the templates the constructors look up are taken to     *)
(*    exist, and the platform may deliver an event to every element on     *)
(*    which the code registered a handler for it.                          *)
(***************************************************************************)
EXTENDS Integers, Sequences, FiniteSets, TLC

VARIABLES
    startup,    \* progress and outcome of the module-level code (lines 354-356)
    heap,       \* the Project objects allocated so far, by reference
    projects,   \* ProjectState.projects: references, in store order
    listeners,  \* State.listeners: the component each registered closure captured
    lists,      \* the ProjectList objects, by constructor argument
    inputs,     \* the value of the three input elements of the form
    drag,       \* the platform's current drag-and-drop operation
    last,       \* history: the handler that ran last and what it did
    delivered,  \* history: every snapshot handed to a listener, as delivered
    vcall       \* one call of validate: its argument and its result

vars == <<startup, heap, projects, listeners, lists, inputs, drag, last,
          delivered, vcall>>

appVars == <<startup, heap, projects, listeners, lists, inputs, drag, last,
             delivered>>

\* ------------------------------------------------------------------ bounds
MaxProjects == 2   \* projects the model lets the store hold
MaxLen == 3        \* longest text handed to validate on its own
MaxNum == 3        \* largest number handed to validate on its own
MaxBound == 2      \* largest configured minLength/maxLength/min/max

\* --------------------------------------------------------- texts and numbers
Opt(S) == {<<>>} \cup {<<x>> : x \in S}

Digits == <<"0", "1", "2", "3", "4", "5", "6", "7", "8", "9">>

IsDigit(c) == \E d \in 1..10 : Digits[d] = c

DigitVal(c) == (CHOOSE d \in 1..10 : Digits[d] = c) - 1

IsSpace(c) == c = " "

RECURSIVE TrimStart(_)
TrimStart(s) ==
    IF s = <<>> THEN <<>>
    ELSE IF IsSpace(Head(s)) THEN TrimStart(Tail(s)) ELSE s

RECURSIVE TrimEnd(_)
TrimEnd(s) ==
    IF s = <<>> THEN <<>>
    ELSE IF IsSpace(s[Len(s)]) THEN TrimEnd(SubSeq(s, 1, Len(s) - 1)) ELSE s

\* String.prototype.trim
Trim(s) == TrimEnd(TrimStart(s))

\* a JavaScript value of type string or number
StrVal(s) == [type |-> "string", str |-> s, num |-> 0, nan |-> FALSE]

NumVal(n) == [type |-> "number", str |-> <<>>, num |-> n, nan |-> FALSE]

NaNVal == [type |-> "number", str |-> <<>>, num |-> 0, nan |-> TRUE]

RECURSIVE DigitsValue(_)
DigitsValue(s) ==
    IF s = <<>> THEN 0
    ELSE 10 * DigitsValue(SubSeq(s, 1, Len(s) - 1)) + DigitVal(s[Len(s)])

AllDigits(s) == s # <<>> /\ \A i \in 1..Len(s) : IsDigit(s[i])

\* the unary plus of line 338 applied to a text (decimal integer literals;
\* a blank text converts to 0, anything else to NaN)
ToNumber(s) ==
    LET t == Trim(s) IN
    IF t = <<>> THEN NumVal(0)
    ELSE IF AllDigits(t) THEN NumVal(DigitsValue(t))
    ELSE IF Head(t) = "-" /\ AllDigits(Tail(t)) THEN NumVal(0 - DigitsValue(Tail(t)))
    ELSE NaNVal

RECURSIVE NatToText(_)
NatToText(n) ==
    IF n < 10 THEN <<Digits[n + 1]>>
    ELSE NatToText(n \div 10) \o <<Digits[(n % 10) + 1]>>

\* value.toString() of line 98
ToStringValue(v) ==
    IF v.type = "string" THEN v.str
    ELSE IF v.nan THEN <<"N", "a", "N">>
    ELSE IF v.num < 0 THEN <<"-">> \o NatToText(0 - v.num)
    ELSE NatToText(v.num)

\* ------------------------------------------------------------------ validate
Validatable(value, required, minLength, maxLength, min, max) ==
    [value |-> value, required |-> required, minLength |-> minLength,
     maxLength |-> maxLength, min |-> min, max |-> max]

\* `x != null` of lines 107 and 115
NotNull(opt) == opt # <<>>

\* the truthiness test `validatableInput.min &&` of lines 123 and 131
Truthy(opt) == opt # <<>> /\ opt[1] # 0

\* `a <= b` and `a >= b` on numbers: false when a is NaN
NumLe(v, b) == ~v.nan /\ v.num <= b

NumGe(v, b) == ~v.nan /\ v.num >= b

RequiredFails(vi) ==
    vi.required /\ Len(Trim(ToStringValue(vi.value))) = 0

MinLengthFails(vi) ==
    /\ NotNull(vi.minLength)
    /\ vi.value.type = "string"
    /\ Len(ToStringValue(vi.value)) <= vi.minLength[1]

MaxLengthFails(vi) ==
    /\ NotNull(vi.maxLength)
    /\ vi.value.type = "string"
    /\ Len(ToStringValue(vi.value)) >= vi.maxLength[1]

MinFails(vi) ==
    /\ Truthy(vi.min)
    /\ vi.value.type = "number"
    /\ NumLe(vi.value, vi.min[1])

MaxFails(vi) ==
    /\ Truthy(vi.max)
    /\ vi.value.type = "number"
    /\ NumGe(vi.value, vi.max[1])

validate(vi) ==
    IF RequiredFails(vi) THEN FALSE
    ELSE IF MinLengthFails(vi) THEN FALSE
    ELSE IF MaxLengthFails(vi) THEN FALSE
    ELSE IF MinFails(vi) THEN FALSE
    ELSE IF MaxFails(vi) THEN FALSE
    ELSE TRUE

\* --------------------------------------------------------------- the store
\* the values of enum ProjectStatus
ProjectStatus == {"ACTIVE", "FINISHED"}

\* what Math.random().toString() can return (two results can be equal)
Ids == {"0.1", "0.2"}

Project(id, title, description, people, status) ==
    [id |-> id, title |-> title, description |-> description,
     people |-> people, status |-> status]

\* The working state of one handler run: the store's and the lists' fields,
\* the listeners invoked so far (by registry position) and whether an
\* exception is propagating.
Running ==
    [heap |-> heap, projects |-> projects, lists |-> lists,
     delivered |-> delivered, notified |-> <<>>, threw |-> FALSE]

\* A parameter property (`private type`, `private project`) is assigned
\* when super() has returned: while the base constructor runs, the field is
\* still undefined.
FieldDuringSuper(arg) == <<>>

\* ProjectItem.renderContent reads this.project.title
ItemRenderContentThrows(projectField) == projectField = <<>>

\* new ProjectItem(hostId, project): the base constructor creates the element,
\* configure() registers the drag handlers on it, renderContent() runs; the
\* constructor's own body (lines 202-203) runs only if super() returned.
NewProjectItem(ref) ==
    LET field == FieldDuringSuper(ref)
        threw == ItemRenderContentThrows(field)
    IN  [item |-> [project |-> IF threw THEN field ELSE <<ref>>],
         threw |-> threw]

RECURSIVE RenderItems(_, _)
RenderItems(refs, acc) ==
    IF refs = <<>> THEN [items |-> acc, threw |-> FALSE]
    ELSE LET r == NewProjectItem(Head(refs)) IN
         IF r.threw THEN [items |-> Append(acc, r.item), threw |-> TRUE]
         ELSE RenderItems(Tail(refs), Append(acc, r.item))

\* ProjectList.renderProjects; `found` is whether document.getElementById
\* finds the list element (null.innerHTML throws when it does not)
RenderProjects(l, found) ==
    IF ~found THEN [items |-> l.items, threw |-> TRUE]
    ELSE RenderItems(l.assigned, <<>>)

\* the status the list compares with: `this.type == 'active'` or else
ListStatus(l) == IF l.type = <<"active">> THEN "ACTIVE" ELSE "FINISHED"

\* the closure ProjectList.configure registers, called with a snapshot
ListListener(s, name, snap, found) ==
    LET l == s.lists[name]
        want == ListStatus(l)
        assigned == SelectSeq(snap, LAMBDA r : s.heap[r].status = want)
        r == RenderProjects([l EXCEPT !.assigned = assigned], found)
    IN  [s EXCEPT !.lists[name] = [l EXCEPT !.assigned = assigned,
                                            !.items = r.items],
                  !.threw = r.threw]

\* this.projects.slice(): a new array holding the same Project references
Slice(arr) == [k \in 1..Len(arr) |-> arr[k]]

\* what a listener is handed, with the statuses it sees at that moment
Delivery(s, snap) ==
    [items |-> snap,
     statuses |-> [k \in 1..Len(snap) |-> s.heap[snap[k]].status]]

RECURSIVE NotifyFrom(_, _, _)
NotifyFrom(s, i, found) ==
    IF i > Len(listeners) THEN s
    ELSE LET snap == Slice(s.projects)
             s1 == [s EXCEPT !.delivered = Append(@, Delivery(s, snap)),
                             !.notified = Append(@, i)]
             s2 == ListListener(s1, listeners[i], snap, found)
         IN  IF s2.threw THEN s2 ELSE NotifyFrom(s2, i + 1, found)

NotifySkippingFirst(s, found) == NotifyFrom(s, 2, found)

notifyListeners(s, found) == NotifyFrom(s, 1, found)

AddProjectAsFinished(s, id, title, description, numOfPeople, found) ==
    LET newProject == Project(id, title, description, numOfPeople, "FINISHED")
        s1 == [s EXCEPT !.heap = Append(@, newProject),
                        !.projects = Append(@, Len(s.heap) + 1)]
    IN  notifyListeners(s1, found)

addProject(s, id, title, description, numOfPeople, found) ==
    LET newProject == Project(id, title, description, numOfPeople, "ACTIVE")
        s1 == [s EXCEPT !.heap = Append(@, newProject),
                        !.projects = Append(@, Len(s.heap) + 1)]
    IN  notifyListeners(s1, found)

\* this.projects.find(prj => prj.id === projectId): the first match, if any
FindProject(s, projectId) ==
    LET hits == {k \in 1..Len(s.projects) : s.heap[s.projects[k]].id = projectId}
    IN  IF hits = {} THEN <<>>
        ELSE <<s.projects[CHOOSE k \in hits : \A j \in hits : k <= j]>>

MoveProjectAlwaysNotifying(s, projectId, newStatus, found) ==
    LET project == FindProject(s, projectId) IN
    IF project = <<>> THEN s
    ELSE notifyListeners([s EXCEPT !.heap[project[1]].status = newStatus], found)

moveProject(s, projectId, newStatus, found) ==
    LET project == FindProject(s, projectId) IN
    IF project = <<>> \/ s.heap[project[1]].status = newStatus THEN s
    ELSE notifyListeners([s EXCEPT !.heap[project[1]].status = newStatus], found)

\* ---------------------------------------------------------- the components
\* history record of a handler that touched neither the store nor the form
Quiet(op) ==
    [op |-> op, valid |-> FALSE, alerted |-> FALSE, notified |-> <<>>,
     threw |-> FALSE, id |-> "", status |-> "", plain |-> FALSE]

\* the constructor arguments of lines 355 and 356
ListNames == {"active", "finished"}

\* a ProjectList object before its constructor has run
NoList ==
    [configured |-> FALSE, type |-> <<>>, assigned |-> <<>>, items |-> <<>>,
     droppable |-> FALSE]

\* ProjectList.renderContent evaluates this.type.toUpperCase()
ListRenderContentThrows(typeField) == typeField = <<>>

\* new ProjectList(type): the base constructor runs configure() (the listener
\* and the drag handlers are registered), attach() and renderContent(); the
\* parameter property and the field initializer run after super() returned.
NewProjectList(ls, lsn, type) ==
    LET field == FieldDuringSuper(type)
        configured == [ls EXCEPT ![type].configured = TRUE, ![type].type = field]
        registered == Append(lsn, type)
        threw == ListRenderContentThrows(field)
    IN  [lists |-> IF threw THEN configured
                   ELSE [configured EXCEPT ![type].type = <<type>>,
                                           ![type].assigned = <<>>],
         listeners |-> registered,
         threw |-> threw]

\* the module-level code: new ProjectInput(), new ProjectList('active'),
\* new ProjectList('finished'); an exception ends it.  ProjectInput's
\* constructor registers the submit handler and cannot throw.
ModuleCode ==
    LET a == NewProjectList(lists, listeners, "active")
        b == IF a.threw THEN a
             ELSE NewProjectList(a.lists, a.listeners, "finished")
    IN  [lists |-> b.lists, listeners |-> b.listeners, threw |-> b.threw,
         constructed |-> IF a.threw THEN <<"input">>
                         ELSE IF b.threw THEN <<"input", "active">>
                         ELSE <<"input", "active", "finished">>]

Startup ==
    /\ ~startup.done
    /\ lists' = ModuleCode.lists
    /\ listeners' = ModuleCode.listeners
    /\ startup' = [done |-> TRUE, input |-> TRUE, threw |-> ModuleCode.threw,
                   constructed |-> ModuleCode.constructed]
    /\ last' = [op |-> "startup", valid |-> FALSE, alerted |-> FALSE,
                notified |-> <<>>, threw |-> ModuleCode.threw, id |-> "",
                status |-> "", plain |-> FALSE]
    /\ UNCHANGED <<heap, projects, inputs, drag, delivered, vcall>>

\* ------------------------------------------------------------ the input form
DescriptionMinLength == 5

PeopleMin == 1

Text(n) == [i \in 1..n |-> "a"]

\* what a user can have typed into the three fields
TitleChoices == {<<>>, <<"a">>}

DescriptionChoices ==
    {<<>>, Text(DescriptionMinLength), Text(DescriptionMinLength + 1)}

PeopleChoices == {<<>>, <<"a">>, <<"0">>, <<"-", "1">>, <<"1">>, <<"2">>}

Cleared == [title |-> <<>>, description |-> <<>>, people |-> <<>>]

\* ProjectInput.gatherUserInput: <<>> for the void result (after the alert)
gatherUserInput(inp) ==
    IF \/ ~validate(Validatable(StrVal(inp.title), TRUE, <<>>, <<>>, <<>>, <<>>))
       \/ ~validate(Validatable(StrVal(inp.description), TRUE,
                                <<DescriptionMinLength>>, <<>>, <<>>, <<>>))
       \/ ~validate(Validatable(ToNumber(inp.people), TRUE, <<>>, <<>>,
                                <<PeopleMin>>, <<>>))
    THEN <<>>
    ELSE <<[title |-> inp.title, description |-> inp.description,
            people |-> ToNumber(inp.people)]>>

\* the user edits one field of the form (no drag is in progress: the
\* platform delivers no other input while one is)
EditInputs ==
    /\ startup.input
    /\ ~drag.active
    /\ \/ \E t \in TitleChoices : inputs' = [inputs EXCEPT !.title = t]
       \/ \E d \in DescriptionChoices : inputs' = [inputs EXCEPT !.description = d]
       \/ \E p \in PeopleChoices : inputs' = [inputs EXCEPT !.people = p]
    /\ last' = Quiet("other")
    /\ UNCHANGED <<startup, heap, projects, listeners, lists, drag, delivered,
                   vcall>>

\* ProjectInput.submitHandler; an exception thrown under addProject leaves
\* the handler before clearInputs
SubmitHandler ==
    /\ startup.input
    /\ ~drag.active
    /\ LET userInput == gatherUserInput(inputs) IN
       IF userInput = <<>>
       THEN /\ last' = [op |-> "submit", valid |-> FALSE, alerted |-> TRUE,
                        notified |-> <<>>, threw |-> FALSE, id |-> "",
                        status |-> "", plain |-> FALSE]
            /\ UNCHANGED <<heap, projects, lists, inputs, delivered>>
       ELSE /\ Len(heap) < MaxProjects
            /\ \E id \in Ids, found \in BOOLEAN :
                  LET s == addProject(Running, id, userInput[1].title,
                                      userInput[1].description,
                                      userInput[1].people, found)
                  IN  /\ heap' = s.heap
                      /\ projects' = s.projects
                      /\ lists' = s.lists
                      /\ delivered' = s.delivered
                      /\ inputs' = IF s.threw THEN inputs ELSE Cleared
                      /\ last' = [op |-> "submit", valid |-> TRUE,
                                  alerted |-> FALSE, notified |-> s.notified,
                                  threw |-> s.threw, id |-> id,
                                  status |-> "", plain |-> FALSE]
    /\ UNCHANGED <<startup, listeners, drag, vcall>>

\* ------------------------------------------------------------- drag and drop
NoDrag ==
    [active |-> FALSE, hasData |-> FALSE, types |-> <<>>, data |-> "",
     accepted |-> <<>>]

\* the text a foreign drag source can carry: a project id or any other text
DragTexts == Ids \cup {"hello"}

\* the payloads of drags the code does not start: none at all (an event
\* without dataTransfer), files, plain text, rich text with a plain variant
ForeignPayloads ==
    {[active |-> TRUE, hasData |-> FALSE, types |-> <<>>, data |-> "",
      accepted |-> <<>>],
     [active |-> TRUE, hasData |-> TRUE, types |-> <<"Files">>, data |-> "",
      accepted |-> <<>>]}
    \cup {[active |-> TRUE, hasData |-> TRUE, types |-> ty, data |-> x,
           accepted |-> <<>>] :
             ty \in {<<"text/plain">>, <<"text/html", "text/plain">>},
             x \in DragTexts}

\* a drag of something other than a project item starts
DragBegin ==
    /\ startup.done
    /\ ~drag.active
    /\ \E d \in ForeignPayloads : drag' = d
    /\ last' = Quiet("other")
    /\ UNCHANGED <<startup, heap, projects, listeners, lists, inputs,
                   delivered, vcall>>

\* ProjectItem.dragStartHandler: this.project.id throws when the field is
\* undefined, before setData; the drag then carries nothing
dragStartHandler(item) ==
    IF item.project = <<>>
    THEN [active |-> TRUE, hasData |-> TRUE, types |-> <<>>, data |-> "",
          accepted |-> <<>>]
    ELSE [active |-> TRUE, hasData |-> TRUE, types |-> <<"text/plain">>,
          data |-> heap[item.project[1]].id, accepted |-> <<>>]

ItemDragStart ==
    /\ ~drag.active
    /\ \E name \in ListNames : \E k \in 1..Len(lists[name].items) :
          drag' = dragStartHandler(lists[name].items[k])
    /\ last' = Quiet("other")
    /\ UNCHANGED <<startup, heap, projects, listeners, lists, inputs,
                   delivered, vcall>>

\* event.dataTransfer.types[0] === 'text/plain'
PlainFirst(d) == d.hasData /\ d.types # <<>> /\ d.types[1] = "text/plain"

DragOverAcceptsAnything(d) == TRUE

\* the guard of ProjectList.dragOverHandler (line 240), negated
DragOverAccepts(d) == ~(~d.hasData \/ ~PlainFirst(d))

\* ProjectList.dragOverHandler; a drop can follow only a dragover that
\* called preventDefault
DragOverHandler ==
    /\ drag.active
    /\ \E name \in ListNames :
          /\ lists[name].configured
          /\ IF DragOverAccepts(drag)
             THEN /\ drag' = [drag EXCEPT !.accepted = <<name>>]
                  /\ lists' = [lists EXCEPT ![name].droppable = TRUE]
             ELSE /\ drag' = [drag EXCEPT !.accepted = <<>>]
                  /\ UNCHANGED lists
    /\ last' = Quiet("other")
    /\ UNCHANGED <<startup, heap, projects, listeners, inputs, delivered,
                   vcall>>

\* ProjectList.dragLeaveHandler
DragLeaveHandler ==
    /\ drag.active
    /\ \E name \in ListNames :
          /\ lists[name].configured
          /\ lists' = [lists EXCEPT ![name].droppable = FALSE]
          /\ drag' = [drag EXCEPT !.accepted =
                         IF @ = <<name>> THEN <<>> ELSE @]
    /\ last' = Quiet("other")
    /\ UNCHANGED <<startup, heap, projects, listeners, inputs, delivered,
                   vcall>>

\* event.dataTransfer.getData('text/plain')
GetData(d) ==
    IF \E i \in 1..Len(d.types) : d.types[i] = "text/plain" THEN d.data ELSE ""

\* the status ProjectList.dropHandler passes: `this.type === 'active'` or else
DropStatus(l) == IF l.type = <<"active">> THEN "ACTIVE" ELSE "FINISHED"

\* ProjectList.dropHandler, on the list whose dragover accepted the drag
DropHandler ==
    /\ drag.active
    /\ \E name \in ListNames, found \in BOOLEAN :
          /\ lists[name].configured
          /\ drag.accepted = <<name>>
          /\ LET prjId == GetData(drag)
                 s == moveProject(Running, prjId, DropStatus(lists[name]), found)
             IN  /\ heap' = s.heap
                 /\ projects' = s.projects
                 /\ lists' = s.lists
                 /\ delivered' = s.delivered
                 /\ last' = [op |-> "drop", valid |-> FALSE, alerted |-> FALSE,
                             notified |-> s.notified, threw |-> s.threw,
                             id |-> prjId, status |-> DropStatus(lists[name]),
                             plain |-> PlainFirst(drag)]
    /\ drag' = NoDrag
    /\ UNCHANGED <<startup, listeners, inputs, vcall>>

\* the drag ends without a drop; ProjectItem.dragEndHandler only throws
DragEnd ==
    /\ drag.active
    /\ drag' = NoDrag
    /\ last' = Quiet("other")
    /\ UNCHANGED <<startup, heap, projects, listeners, lists, inputs,
                   delivered, vcall>>

\* ------------------------------------------------------------ specification
NoCall ==
    [input |-> Validatable(StrVal(<<>>), FALSE, <<>>, <<>>, <<>>, <<>>),
     done |-> FALSE, result |-> FALSE]

AppInit ==
    /\ startup = [done |-> FALSE, input |-> FALSE, threw |-> FALSE,
                  constructed |-> <<>>]
    /\ heap = <<>>
    /\ projects = <<>>
    /\ listeners = <<>>
    /\ lists = [n \in ListNames |-> NoList]
    /\ inputs = Cleared
    /\ drag = NoDrag
    /\ last = Quiet("none")
    /\ delivered = <<>>

Init == AppInit /\ vcall = NoCall

Next ==
    \/ Startup
    \/ EditInputs
    \/ SubmitHandler
    \/ DragBegin
    \/ ItemDragStart
    \/ DragOverHandler
    \/ DragLeaveHandler
    \/ DropHandler
    \/ DragEnd

Spec == Init /\ [][Next]_vars

\* ------------------------------------------------- validate, on its own
ValueChoices ==
    {StrVal(Text(n)) : n \in 0..MaxLen}
    \cup {StrVal(<<" ">>)}
    \cup {NumVal(n) : n \in -1..MaxNum}
    \cup {NaNVal}

BoundChoices == Opt(0..MaxBound)

ValidatableChoices ==
    {Validatable(v, r, mnl, mxl, mn, mx) :
        v \in ValueChoices, r \in BOOLEAN, mnl \in BoundChoices,
        mxl \in BoundChoices, mn \in BoundChoices, mx \in BoundChoices}

ValInit ==
    /\ AppInit
    /\ \E vi \in ValidatableChoices :
          vcall = [input |-> vi, done |-> FALSE, result |-> FALSE]

ValidateCall ==
    /\ ~vcall.done
    /\ vcall' = [vcall EXCEPT !.done = TRUE, !.result = validate(vcall.input)]
    /\ UNCHANGED appVars

ValNext == ValidateCall

ValSpec == ValInit /\ [][ValNext]_vars

\* ------------------------------------------------------------------ claims
\* the step just taken ran addProject (a submission that passed validation)
AddStep == last'.op = "submit" /\ last'.valid

\* the step just taken ran dropHandler, and so moveProject
MoveStep == last'.op = "drop"

\* the projects (store positions) whose id is `id`
Matches(id) == {k \in 1..Len(projects) : heap[projects[k]].id = id}

FirstMatch(id) == CHOOSE k \in Matches(id) : \A j \in Matches(id) : k <= j

AllListenersInOrder == [i \in 1..Len(listeners) |-> i]

\* C1: a snapshot handed to a listener is never changed by a later addProject
\* or moveProject: every delivered snapshot still holds the projects it held
\* at delivery, each with the status it had at delivery.
C1_DeliveredSnapshotsUnchanged ==
    \A k \in 1..Len(delivered) :
        /\ Len(delivered[k].items) = Len(delivered[k].statuses)
        /\ \A i \in 1..Len(delivered[k].items) :
              heap[delivered[k].items[i]].status = delivered[k].statuses[i]

\* C2: moveProject(id, newStatus) changes nothing and notifies nobody when no
\* project has the id or the first project with the id already has newStatus;
\* otherwise it sets that project's status, and only that, and notifies.
C2_MoveProjectNoOpOrUpdate ==
    [][MoveStep =>
         IF Matches(last'.id) = {}
            \/ heap[projects[FirstMatch(last'.id)]].status = last'.status
         THEN /\ heap' = heap
              /\ projects' = projects
              /\ delivered' = delivered
              /\ lists' = lists
              /\ last'.notified = <<>>
         ELSE /\ heap' = [heap EXCEPT
                             ![projects[FirstMatch(last'.id)]].status = last'.status]
              /\ projects' = projects
              /\ last'.notified # <<>>]_vars

\* a drop named a stored project that already had the status asked for: the
\* store was left alone and the registered listener was not invoked
C2_Witness ==
    /\ last.op = "drop"
    /\ last.notified = <<>>
    /\ Matches(last.id) # {}
    /\ heap[projects[FirstMatch(last.id)]].status = last.status
    /\ Len(listeners) > 0

\* C3: addProject appends exactly one project, with status ACTIVE and the
\* given title, description and people count, at the end of the list, and
\* leaves every project stored before as it was.
C3_AddProjectAppendsActive ==
    [][AddStep =>
         /\ Len(heap') = Len(heap) + 1
         /\ projects' = Append(projects, Len(heap) + 1)
         /\ heap'[Len(heap')] =
               Project(last'.id, inputs.title, inputs.description,
                       ToNumber(inputs.people), "ACTIVE")
         /\ \A k \in 1..Len(heap) : heap'[k] = heap[k]]_vars

\* a project was added to a store that already held one
C3_Witness ==
    /\ last.op = "submit"
    /\ last.valid
    /\ Len(projects) >= 2
    /\ heap[projects[Len(projects)]].status = "ACTIVE"

\* C4: validate returns false for a text whose length equals a configured
\* minLength or maxLength and for a number equal to a configured min or max,
\* and true for a value strictly inside every configured bound (and not blank
\* when required).
C4_ValidateBoundaryExclusive ==
    vcall.done =>
        LET vi == vcall.input
            isText == vi.value.type = "string"
            isNum == vi.value.type = "number" /\ ~vi.value.nan
            len == Len(vi.value.str)
            atBound ==
                \/ isText /\ vi.minLength # <<>> /\ len = vi.minLength[1]
                \/ isText /\ vi.maxLength # <<>> /\ len = vi.maxLength[1]
                \/ isNum /\ vi.min # <<>> /\ vi.value.num = vi.min[1]
                \/ isNum /\ vi.max # <<>> /\ vi.value.num = vi.max[1]
            inside ==
                /\ isText \/ isNum
                /\ isText /\ vi.minLength # <<>> => len > vi.minLength[1]
                /\ isText /\ vi.maxLength # <<>> => len < vi.maxLength[1]
                /\ isNum /\ vi.min # <<>> => vi.value.num > vi.min[1]
                /\ isNum /\ vi.max # <<>> => vi.value.num < vi.max[1]
                /\ vi.required /\ isText => \E i \in 1..len : vi.value.str[i] # " "
        IN  /\ atBound => vcall.result = FALSE
            /\ inside => vcall.result = TRUE

C6_ColumnsPartitionStore ==
    startup.done =>
        /\ lists["active"].assigned =
              SelectSeq(projects, LAMBDA r : heap[r].status = "ACTIVE")
        /\ lists["finished"].assigned =
              SelectSeq(projects, LAMBDA r : heap[r].status = "FINISHED")

\* C7: a submission that fails validation alerts and changes neither the
\* store nor the fields and notifies nobody; one that passes adds one project
\* with the entered title, description and numeric people count and then
\* clears the three fields.
C7_SubmitAbortsOrAddsAndClears ==
    [][last'.op = "submit" =>
         IF gatherUserInput(inputs) = <<>>
         THEN /\ last'.alerted
              /\ heap' = heap
              /\ projects' = projects
              /\ last'.notified = <<>>
              /\ inputs' = inputs
         ELSE /\ ~last'.alerted
              /\ Len(heap') = Len(heap) + 1
              /\ heap'[Len(heap')].title = inputs.title
              /\ heap'[Len(heap')].description = inputs.description
              /\ heap'[Len(heap')].people = ToNumber(inputs.people)
              /\ inputs' = Cleared]_vars

\* C8: startup ends without an exception, with the input form and both lists
\* constructed, and the registry holds the active list's listener followed by
\* the finished list's, each filtering by its own type.
C8_StartupCompletes ==
    startup.done =>
        /\ ~startup.threw
        /\ startup.constructed = <<"input", "active", "finished">>
        /\ listeners = <<"active", "finished">>
        /\ ListStatus(lists["active"]) = "ACTIVE"
        /\ ListStatus(lists["finished"]) = "FINISHED"

\* C9: a drop changes a status only if the drag's first type is text/plain;
\* a drag without payload or with another first type is never accepted by
\* dragover and never changes a status.
C9_DropOnlyForPlainText ==
    [][/\ MoveStep /\ heap' # heap => PlainFirst(drag)
       /\ drag'.active /\ ~PlainFirst(drag') => drag'.accepted = <<>>
       /\ drag.active /\ ~PlainFirst(drag) =>
             \A k \in 1..Len(heap) : heap'[k].status = heap[k].status]_vars

\* a plain-text drag was dropped and changed a status
C9_Witness ==
    /\ last.op = "drop"
    /\ last.plain
    /\ last.notified # <<>>
    /\ \E k \in 1..Len(heap) : heap[k].id = last.id /\ heap[k].status = "FINISHED"

\* C10: every stored project has a people count that is a positive integer.
C10_PeoplePositiveInteger ==
    \A k \in 1..Len(heap) : ~heap[k].people.nan /\ heap[k].people.num >= 1

=============================================================================
